---- MODULE Spec2Model ----
(***************************************************************************)
(* Backtest engine, position lifecycle and risk gate of RobotTrading.      *)
(*                                                                         *)
(* Numbers.  The program computes with Python floats.  Here every amount   *)
(* (price, size, equity, P&L, percentage) is an exact rational <<n, d>>    *)
(* with d > 0 in lowest terms; rounding of floats is not modelled.         *)
(* Timestamps are whole hours counted from the first loadable bar.         *)
(***************************************************************************)
EXTENDS Integers, Sequences, FiniteSets, TLC

(***************************************************************************)
(* Exact rational arithmetic standing for Python float arithmetic.         *)
(***************************************************************************)
RECURSIVE Gcd(_, _)
Gcd(a, b) ==
    IF b = 0 THEN a ELSE Gcd(b, a % b)

IAbs(n) ==
    IF n < 0 THEN -n ELSE n

Norm(n, d) ==
    LET s == IF d < 0 THEN -1 ELSE 1
        g == Gcd(IAbs(n), IAbs(d))
    IN  <<(s * n) \div g, (s * d) \div g>>

R(n) ==
    <<n, 1>>

RAdd(x, y) ==
    Norm(x[1] * y[2] + y[1] * x[2], x[2] * y[2])

RSub(x, y) ==
    Norm(x[1] * y[2] - y[1] * x[2], x[2] * y[2])

RMul(x, y) ==
    Norm(x[1] * y[1], x[2] * y[2])

\* x / y for y # 0 (the callers guard the zero divisor as the code does)
RDiv(x, y) ==
    Norm(x[1] * y[2], x[2] * y[1])

RAbs(x) ==
    <<IAbs(x[1]), x[2]>>

RLt(x, y) ==
    x[1] * y[2] < y[1] * x[2]

RLe(x, y) ==
    x[1] * y[2] <= y[1] * x[2]

RGt(x, y) ==
    RLt(y, x)

RGe(x, y) ==
    RLe(y, x)

\* Python min(x, y): y only when y < x
RMin(x, y) ==
    IF RLt(y, x) THEN y ELSE x

RZero ==
    R(0)

RECURSIVE RSumSeq(_)
RSumSeq(s) ==
    IF s = <<>> THEN RZero ELSE RAdd(Head(s), RSumSeq(Tail(s)))

\* Python max(list) of a non-empty list
RECURSIVE RMaxSeq(_)
RMaxSeq(s) ==
    IF Len(s) = 1 THEN s[1]
    ELSE LET m == RMaxSeq(Tail(s)) IN IF RGt(Head(s), m) THEN Head(s) ELSE m

(***************************************************************************)
(* Configuration (risk_management section and engine settings).            *)
(***************************************************************************)
\* config "max_risk_per_trade": 1% of capital
max_risk_per_trade ==
    Norm(1, 100)

\* config "max_position_size_pct": 2% of capital
max_position_size_pct ==
    Norm(2, 100)

\* config "max_total_exposure": 70% of equity
max_total_exposure ==
    Norm(70, 100)

\* config "max_drawdown_pct": 10%
max_drawdown_pct ==
    Norm(10, 100)

\* config "max_consecutive_losses" (3 when the key is absent), set to 2 here
max_consecutive_losses == 2

\* config "risk_management.initial_capital"
initial_capital == 10000

\* config "max_position_duration_hours" (48 when the key is absent), set to
\* one hour here so that a position outlives it within MaxTime
max_position_duration_hours == 1

\* config "timeframes.primary"
primary_timeframe ==
    "5m"

\* config "trading_pairs" and the timeframes the DataLoader loads
Pairs ==
    {"BTC/USDT"}

Timeframes ==
    {"5m", "1h"}

(***************************************************************************)
(* Bounds of the model.                                                    *)
(***************************************************************************)
\* last loadable bar timestamp (hours)
MaxTime == 2

\* positions opened over one run
MaxOpens == 2

\* consecutive-loss counts and history lengths tried on the risk gate
MaxLosses == 3

MaxHistory == 2

Times ==
    0..MaxTime

\* config "start_date" / "end_date": the DataLoader keeps only bars inside
start_date ==
    0

end_date ==
    MaxTime

\* absent dictionary key / Python None
None ==
    <<>>

\* close prices found in the loaded bars
Prices ==
    {R(10), R(11)}

(***************************************************************************)
(* RiskCalculator (src/risk/risk_calculator.py).                           *)
(***************************************************************************)
\* calculate_position_size without the cap of lines 65-66
calculate_position_size_uncapped(capital, entry_price, stop_loss) ==
    IF entry_price = RZero \/ stop_loss = RZero
    THEN RZero
    ELSE LET risk_pct == RDiv(RAbs(RSub(entry_price, stop_loss)), entry_price)
         IN  IF risk_pct = RZero
             THEN RZero
             ELSE RDiv(RMul(capital, max_risk_per_trade), risk_pct)

\* calculate_position_size(capital, entry_price, stop_loss) with
\* max_risk_amount left at its default None
calculate_position_size(capital, entry_price, stop_loss) ==
    IF entry_price = RZero \/ stop_loss = RZero
    THEN RZero
    ELSE LET risk_pct == RDiv(RAbs(RSub(entry_price, stop_loss)), entry_price)
         IN  IF risk_pct = RZero
             THEN RZero
             ELSE LET max_risk_amount == RMul(capital, max_risk_per_trade)
                      position_size == RDiv(max_risk_amount, risk_pct)
                      max_position_size == RMul(capital, max_position_size_pct)
                  IN  RMin(position_size, max_position_size)

\* is_drawdown_acceptable rejecting a drawdown equal to the limit
is_drawdown_acceptable_below(equity_curve, current_equity) ==
    IF equity_curve = <<>>
    THEN TRUE
    ELSE LET peak_equity == RMaxSeq(equity_curve)
             drawdown == RDiv(RSub(peak_equity, current_equity), peak_equity)
         IN  RLt(drawdown, max_drawdown_pct)

\* is_drawdown_acceptable(equity_curve, current_equity); equity_curve is a
\* sequence of equity values whose peak is positive
is_drawdown_acceptable(equity_curve, current_equity) ==
    IF equity_curve = <<>>
    THEN TRUE
    ELSE LET peak_equity == RMaxSeq(equity_curve)
             drawdown == RDiv(RSub(peak_equity, current_equity), peak_equity)
         IN  RLe(drawdown, max_drawdown_pct)

\* sum(position["position_value"] for position in current_positions.values())
RECURSIVE total_exposure(_)
total_exposure(current_positions) ==
    IF DOMAIN current_positions = {}
    THEN RZero
    ELSE LET k == CHOOSE x \in DOMAIN current_positions : TRUE
             rest == [x \in DOMAIN current_positions \ {k} |-> current_positions[x]]
         IN  RAdd(current_positions[k].position_value, total_exposure(rest))

\* the streak test of line 130: consecutive_losses >= max_consecutive_losses
losses_above_limit(losses) ==
    losses > max_consecutive_losses

losses_at_limit(losses) ==
    losses >= max_consecutive_losses

\* can_open_position(current_positions, consecutive_losses, equity_curve,
\* current_equity)
can_open_position_ignores_streak(current_positions, consecutive_losses, equity_curve, current_equity) ==
    IF ~is_drawdown_acceptable(equity_curve, current_equity)
    THEN FALSE
    ELSE IF RGe(total_exposure(current_positions), RMul(current_equity, max_total_exposure))
    THEN FALSE
    ELSE TRUE

can_open_position(current_positions, consecutive_losses, equity_curve, current_equity) ==
    IF losses_at_limit(consecutive_losses)
    THEN FALSE
    ELSE IF ~is_drawdown_acceptable(equity_curve, current_equity)
    THEN FALSE
    ELSE IF RGe(total_exposure(current_positions), RMul(current_equity, max_total_exposure))
    THEN FALSE
    ELSE TRUE

(***************************************************************************)
(* State.                                                                  *)
(***************************************************************************)
VARIABLES
    market_data,         \* self.market_data: pair -> timeframe -> (bar timestamp -> close)
    pc,                  \* where run() stands
    time_index,          \* run(): time_index, built once before the loop
    tick,                \* position of the for loop in time_index
    equity,              \* run(): equity
    equity_curve,        \* run(): equity_curve, a sequence of <<timestamp, equity>>
    trades,              \* run(): trades, the ledger of closed positions
    positions,           \* run(): positions, id -> open position
    consecutive_losses,  \* simulator's risk state
    peak_equity,         \* simulator's risk state
    next_id,             \* simulator's id counter
    exit_log,            \* what _update_positions evaluated at the current tick
    strategy_data,       \* what strategy.update_data last received, None before the first tick
    strategy,            \* the signals the strategy returns at each time when they are
                         \* fixed in advance, None when any batch may come at any tick
    run_no,              \* 1 during the first call of run() on the engine, 2 during the second
    first_results,       \* what the first call of run() returned, None until it is called again
    metrics,             \* run(): metrics, None until they are computed
    call,                \* last call made on one object alone, and what it returned
    is_running,          \* TradingBot.is_running
    bot_thread,          \* TradingBot.bot_thread: the thread start() created last, 0 for None
    threads,             \* where each thread running _run_loop stands
    caller,              \* where the thread calling start() and stop() stands
    balance,             \* MockExchange.balance: currency -> amount
    orders,              \* MockExchange.orders: order id -> order
    order_id_counter     \* MockExchange.order_id_counter

vars ==
    <<market_data, pc, time_index, tick, equity, equity_curve, trades, positions,
      consecutive_losses, peak_equity, next_id, exit_log, strategy_data, strategy,
      run_no, first_results, metrics, call, is_running, bot_thread, threads, caller,
      balance, orders, order_id_counter>>

bot_vars ==
    <<is_running, bot_thread, threads, caller>>

exchange_vars ==
    <<balance, orders, order_id_counter>>

engine_vars ==
    <<market_data, pc, time_index, tick, equity, equity_curve, trades, positions,
      consecutive_losses, peak_equity, next_id, exit_log, strategy_data, strategy,
      run_no, first_results, metrics>>

\* the most _run_loop threads start() creates
MaxThreads ==
    3

Threads ==
    1..MaxThreads

\* TradingBot.__init__, lines 61-64
TradingBot_init ==
    /\ is_running = FALSE
    /\ bot_thread = 0
    /\ threads = [t \in Threads |-> "unborn"]
    /\ caller = "idle"

\* MockExchange.__init__, lines 32-42
MockExchange_init(initial_balance) ==
    /\ balance = initial_balance
    /\ orders = <<>>
    /\ order_id_counter = 0

\* the balances of the engine's runs, which use no exchange
NoBalance ==
    [currency \in {"USDT", "BTC"} |-> <<0, 1>>]

(***************************************************************************)
(* BacktestEngine (src/backtesting/backtest_engine.py): market data.       *)
(***************************************************************************)
\* the ascending sequence of the elements of a finite set of integers
RECURSIVE Sorted(_)
Sorted(S) ==
    IF S = {}
    THEN <<>>
    ELSE LET m == CHOOSE x \in S : \A y \in S : x <= y
         IN  <<m>> \o Sorted(S \ {m})

\* _create_time_index
_create_time_index_primary ==
    LET all_timestamps == UNION {DOMAIN market_data[p][primary_timeframe] : p \in DOMAIN market_data}
    IN  Sorted(all_timestamps)

_create_time_index_complete ==
    IF \E p \in DOMAIN market_data, tf \in Timeframes : market_data[p][tf] = <<>>
    THEN <<>>
    ELSE Sorted(UNION {DOMAIN market_data[p][tf] : p \in DOMAIN market_data, tf \in Timeframes})

_create_time_index ==
    LET all_timestamps == UNION {DOMAIN market_data[p][tf] : p \in DOMAIN market_data, tf \in Timeframes}
        sorted_index == Sorted(all_timestamps)
    IN  SelectSeq(sorted_index, LAMBDA t : t >= start_date /\ t <= end_date)

\* _slice_data_to_time(current_time): df[df.index <= current_time] for every
\* pair and timeframe
_slice_data_to_time_strict(current_time) ==
    [p \in DOMAIN market_data |->
       [tf \in DOMAIN market_data[p] |->
          LET df == market_data[p][tf]
          IN  [b \in {x \in DOMAIN df : x < current_time} |-> df[b]]]]

_slice_data_to_time(current_time) ==
    [p \in DOMAIN market_data |->
       [tf \in DOMAIN market_data[p] |->
          LET df == market_data[p][tf]
          IN  [b \in {x \in DOMAIN df : x <= current_time} |-> df[b]]]]

\* df.index.get_indexer([timestamp], method='nearest')[0] on a sorted index
\* without duplicates, given as the set of its timestamps: the timestamp of
\* the chosen bar.  pandas takes the bar at or before the target only when it
\* is strictly nearer than the bar at or after it.
get_indexer_nearest(index, timestamp) ==
    LET pad == {b \in index : b <= timestamp}
        backfill == {b \in index : b >= timestamp}
        left == CHOOSE b \in pad : \A c \in pad : c <= b
        right == CHOOSE b \in backfill : \A c \in backfill : b <= c
    IN  IF backfill = {} THEN left
        ELSE IF pad = {} THEN right
        ELSE IF timestamp - left < right - timestamp THEN left
        ELSE right

\* the bar _get_close_price reads for (pair, timestamp); None when it
\* returns 0.0 for lack of data
close_price_bar(pair, timestamp) ==
    LET df == IF pair \in DOMAIN market_data
              THEN market_data[pair][primary_timeframe]
              ELSE <<>>
    IN  IF DOMAIN df = {}
        THEN None
        ELSE <<get_indexer_nearest(DOMAIN df, timestamp)>>

_get_close_price(pair, timestamp) ==
    LET bar == close_price_bar(pair, timestamp)
    IN  IF bar = None
        THEN RZero
        ELSE market_data[pair][primary_timeframe][bar[1]]

(***************************************************************************)
(* BacktestEngine: position lifecycle.                                     *)
(***************************************************************************)
\* _update_trailing_stop(position, current_price): the position as it is
\* left by the call
_update_trailing_stop_follow(position, current_price) ==
    IF position.direction = "LONG"
    THEN [position EXCEPT
            !.highest_price = current_price,
            !.trailing_stop = RMul(current_price, RSub(R(1), position.trailing_stop_pct)),
            !.trailing_activated = TRUE]
    ELSE [position EXCEPT
            !.lowest_price = current_price,
            !.trailing_stop = RMul(current_price, RAdd(R(1), position.trailing_stop_pct)),
            !.trailing_activated = TRUE]

_update_trailing_stop(position, current_price) ==
    LET trailing_pct == position.trailing_stop_pct
    IN  IF position.direction = "LONG"
        THEN LET highest == IF position.highest_price = None
                            THEN position.entry_price
                            ELSE position.highest_price
             IN  IF RGt(current_price, highest)
                 THEN [position EXCEPT
                         !.highest_price = current_price,
                         !.trailing_stop = RMul(current_price, RSub(R(1), trailing_pct)),
                         !.trailing_activated = TRUE]
                 ELSE [position EXCEPT !.highest_price = highest]
        ELSE IF position.direction = "SHORT"
        THEN LET lowest == IF position.lowest_price = None
                           THEN position.entry_price
                           ELSE position.lowest_price
             IN  IF RLt(current_price, lowest)
                 THEN [position EXCEPT
                         !.lowest_price = current_price,
                         !.trailing_stop = RMul(current_price, RAdd(R(1), trailing_pct)),
                         !.trailing_activated = TRUE]
                 ELSE [position EXCEPT !.lowest_price = lowest]
        ELSE position

\* lines 250-251: the stop-loss test
stop_loss_strict(position, current_price) ==
    \/ position.direction = "LONG" /\ RLt(current_price, position.stop_loss)
    \/ position.direction = "SHORT" /\ RGt(current_price, position.stop_loss)

stop_loss_hit(position, current_price) ==
    \/ position.direction = "LONG" /\ RLe(current_price, position.stop_loss)
    \/ position.direction = "SHORT" /\ RGe(current_price, position.stop_loss)

\* lines 255-257: the first take-profit test
take_profit1_hit(position, current_price) ==
    /\ ~position.exit_take_profit1
    /\ \/ position.direction = "LONG" /\ RGe(current_price, position.take_profit1)
       \/ position.direction = "SHORT" /\ RLe(current_price, position.take_profit1)

\* lines 260-262: the second take-profit test
take_profit2_hit(position, current_price) ==
    /\ position.exit_take_profit1
    /\ ~position.exit_take_profit2
    /\ \/ position.direction = "LONG" /\ RGe(current_price, position.take_profit2)
       \/ position.direction = "SHORT" /\ RLe(current_price, position.take_profit2)

\* lines 266-270: the trailing-stop test
trailing_stop_never(position, current_price) ==
    FALSE

trailing_stop_strict(position, current_price) ==
    /\ position.trailing_stop # None
    /\ position.trailing_activated
    /\ \/ position.direction = "LONG" /\ RLt(current_price, position.trailing_stop)
       \/ position.direction = "SHORT" /\ RGt(current_price, position.trailing_stop)

trailing_stop_hit(position, current_price) ==
    /\ position.trailing_stop # None
    /\ position.trailing_activated
    /\ \/ position.direction = "LONG" /\ RLe(current_price, position.trailing_stop)
       \/ position.direction = "SHORT" /\ RGe(current_price, position.trailing_stop)

\* lines 277-278: the duration test
time_limit_at_limit(position, current_time) ==
    current_time - position.entry_time >= max_position_duration_hours

time_limit_reached(position, current_time) ==
    current_time - position.entry_time > max_position_duration_hours

\* _check_exit_conditions(position, current_price, current_time): the
\* returned reason ("NONE" for None) and the position as the call leaves it
_check_exit_conditions(position, current_price, current_time) ==
    LET unchanged(reason) == [reason |-> reason, position |-> position]
    IN  IF stop_loss_hit(position, current_price)
        THEN unchanged("STOP_LOSS")
        ELSE IF take_profit1_hit(position, current_price)
        THEN unchanged("TAKE_PROFIT1")
        ELSE IF take_profit2_hit(position, current_price)
        THEN unchanged("TAKE_PROFIT2")
        ELSE IF trailing_stop_hit(position, current_price)
        THEN unchanged("TRAILING_STOP")
        ELSE LET updated == _update_trailing_stop(position, current_price)
             IN  IF time_limit_reached(position, current_time)
                 THEN [reason |-> "TIME_LIMIT", position |-> updated]
                 ELSE [reason |-> "NONE", position |-> updated]

\* unrealized P&L of one open position in _calculate_equity
unrealized_pnl(position, current_price) ==
    LET entry_price == position.entry_price
        position_size == position.position_size
    IN  IF position.direction = "LONG"
        THEN RMul(RMul(RDiv(RSub(current_price, entry_price), entry_price), position_size), entry_price)
        ELSE RMul(RMul(RDiv(RSub(entry_price, current_price), entry_price), position_size), entry_price)

\* _calculate_equity(positions, current_equity, current_time)
RECURSIVE positions_value(_, _)
positions_value(ps, current_time) ==
    IF DOMAIN ps = {}
    THEN RZero
    ELSE LET k == CHOOSE x \in DOMAIN ps : TRUE
             rest == [x \in DOMAIN ps \ {k} |-> ps[x]]
         IN  RAdd(unrealized_pnl(ps[k], _get_close_price(ps[k].pair, current_time)),
                  positions_value(rest, current_time))

_calculate_equity_running(ps, current_equity, current_time) ==
    RAdd(current_equity, positions_value(ps, current_time))

_calculate_equity(ps, current_equity, current_time) ==
    RAdd(R(initial_capital), positions_value(ps, current_time))

(***************************************************************************)
(* BacktestEngine: _calculate_metrics.                                     *)
(***************************************************************************)
\* float('inf')
Infinity ==
    <<1, 0>>

\* lines 418-419: the profit_loss values > 0 and the profit_loss values <= 0
\* of the ledger, in its order
profits_of(ledger) ==
    LET kept == SelectSeq(ledger, LAMBDA t : RGt(t.profit_loss, RZero))
    IN  [i \in DOMAIN kept |-> kept[i].profit_loss]

losses_of(ledger) ==
    LET kept == SelectSeq(ledger, LAMBDA t : RLe(t.profit_loss, RZero))
    IN  [i \in DOMAIN kept |-> kept[i].profit_loss]

\* lines 425-434: the largest relative decline from the running peak
RECURSIVE max_drawdown_loop(_, _, _)
max_drawdown_loop(equity_values, peak, max_drawdown) ==
    IF equity_values = <<>>
    THEN max_drawdown
    ELSE LET e == Head(equity_values)
             drawdown == RDiv(RSub(peak, e), peak)
         IN  IF RGt(e, peak)
             THEN max_drawdown_loop(Tail(equity_values), e, max_drawdown)
             ELSE max_drawdown_loop(Tail(equity_values), peak,
                                    IF RGt(drawdown, max_drawdown) THEN drawdown ELSE max_drawdown)

\* lines 438-443: the relative change of equity at every point whose
\* predecessor is positive
tick_returns(equity_values) ==
    LET steps == SelectSeq([i \in 1..(Len(equity_values) - 1) |-> i + 1],
                           LAMBDA i : RGt(equity_values[i - 1], RZero))
    IN  [k \in DOMAIN steps |->
           RDiv(RSub(equity_values[steps[k]], equity_values[steps[k] - 1]),
                equity_values[steps[k] - 1])]

\* lines 437-449.  The code returns avg_return / std_return * sqrt(252) when
\* the standard deviation of the returns is positive, which is when two of
\* them differ, and 0 otherwise; the quotient has no exact value, so it is
\* kept as the returns it is computed from.
sharpe(equity_values) ==
    IF Len(equity_values) > 1
    THEN LET returns == tick_returns(equity_values)
             std_positive == \E i, j \in DOMAIN returns : returns[i] # returns[j]
         IN  IF std_positive
             THEN [mean_over_deviation_of |-> returns]
             ELSE RZero
    ELSE RZero

\* _calculate_metrics(trades, equity_curve, initial_capital).  Timestamps
\* are hours, so the whole days between two of them are their difference
\* divided by 24; the power of the CAGR is kept as base and exponent.
_calculate_metrics(ledger, curve, capital) ==
    LET equity_values == [i \in DOMAIN curve |-> curve[i][2]]
        dates == [i \in DOMAIN curve |-> curve[i][1]]
        final_equity == IF equity_values # <<>> THEN equity_values[Len(equity_values)] ELSE capital
        total_return == RSub(final_equity, capital)
        days == IF dates # <<>> THEN (dates[Len(dates)] - dates[1]) \div 24 ELSE 0
        total_trades == Len(ledger)
        profits == profits_of(ledger)
        losses == losses_of(ledger)
        winning_trades == Len(profits)
        losing_trades == total_trades - winning_trades
        avg_profit == IF winning_trades > 0
                      THEN RDiv(RSumSeq(profits), R(winning_trades))
                      ELSE RZero
        avg_loss == IF losing_trades > 0
                    THEN RDiv(RSumSeq([i \in DOMAIN losses |-> RAbs(losses[i])]), R(losing_trades))
                    ELSE RZero
    IN  [initial_capital |-> capital,
         final_capital |-> final_equity,
         total_return |-> total_return,
         roi |-> RDiv(total_return, capital),
         cagr |-> IF days > 0
                  THEN [base |-> RDiv(final_equity, capital), exponent |-> Norm(365, days)]
                  ELSE RZero,
         total_trades |-> total_trades,
         winning_trades |-> winning_trades,
         losing_trades |-> losing_trades,
         win_rate |-> IF total_trades > 0 THEN Norm(winning_trades, total_trades) ELSE RZero,
         avg_profit |-> avg_profit,
         avg_loss |-> avg_loss,
         profit_factor |-> IF RGt(avg_loss, RZero) THEN RDiv(avg_profit, avg_loss) ELSE Infinity,
         max_drawdown |-> max_drawdown_loop(equity_values, capital, RZero),
         sharpe_ratio |-> sharpe(equity_values)]

(***************************************************************************)
(* OrderSimulator (backtesting/simulator.py), as the specification         *)
(* describes it in sections 4.3 and 4.4.                                   *)
(***************************************************************************)
\* a strategy signal (section 6)
Signal(direction, entry_price, stop_loss, take_profit1, take_profit2, trailing_stop_pct) ==
    [pair |-> "BTC/USDT", direction |-> direction, entry_price |-> entry_price,
     stop_loss |-> stop_loss, take_profit1 |-> take_profit1,
     take_profit2 |-> take_profit2, trailing_stop_pct |-> trailing_stop_pct]

\* simulator.can_open_position(signal, positions, equity): the Risk Gate of
\* section 4.3 on the simulator's risk state; peak is the peak equity the
\* gate has observed, this call's equity included
simulator_can_open_position(signal, ps, current_equity, losses, peak) ==
    can_open_position(ps, losses, <<peak>>, current_equity)

\* simulator.open_position(signal, current_time, equity) with the fresh id:
\* the entry snapshot, sized by the RiskCalculator; the optional keys of the
\* position (highest_price, lowest_price, trailing_stop, trailing_activated,
\* exit_take_profit1, exit_take_profit2) are absent at entry
open_position_same_id(signal, current_time, current_equity, id) ==
    LET size == calculate_position_size(current_equity, signal.entry_price, signal.stop_loss)
    IN  [id |-> 1,
         pair |-> signal.pair,
         direction |-> signal.direction,
         entry_price |-> signal.entry_price,
         entry_time |-> current_time,
         position_size |-> size,
         position_value |-> RMul(signal.entry_price, size),
         stop_loss |-> signal.stop_loss,
         take_profit1 |-> signal.take_profit1,
         take_profit2 |-> signal.take_profit2,
         trailing_stop_pct |-> signal.trailing_stop_pct,
         highest_price |-> None,
         lowest_price |-> None,
         trailing_stop |-> None,
         trailing_activated |-> FALSE,
         exit_take_profit1 |-> FALSE,
         exit_take_profit2 |-> FALSE]

open_position_tp1_marked(signal, current_time, current_equity, id) ==
    LET size == calculate_position_size(current_equity, signal.entry_price, signal.stop_loss)
    IN  [id |-> id,
         pair |-> signal.pair,
         direction |-> signal.direction,
         entry_price |-> signal.entry_price,
         entry_time |-> current_time,
         position_size |-> size,
         position_value |-> RMul(signal.entry_price, size),
         stop_loss |-> signal.stop_loss,
         take_profit1 |-> signal.take_profit1,
         take_profit2 |-> signal.take_profit2,
         trailing_stop_pct |-> signal.trailing_stop_pct,
         highest_price |-> None,
         lowest_price |-> None,
         trailing_stop |-> None,
         trailing_activated |-> FALSE,
         exit_take_profit1 |-> TRUE,
         exit_take_profit2 |-> FALSE]

open_position(signal, current_time, current_equity, id) ==
    LET size == calculate_position_size(current_equity, signal.entry_price, signal.stop_loss)
    IN  [id |-> id,
         pair |-> signal.pair,
         direction |-> signal.direction,
         entry_price |-> signal.entry_price,
         entry_time |-> current_time,
         position_size |-> size,
         position_value |-> RMul(signal.entry_price, size),
         stop_loss |-> signal.stop_loss,
         take_profit1 |-> signal.take_profit1,
         take_profit2 |-> signal.take_profit2,
         trailing_stop_pct |-> signal.trailing_stop_pct,
         highest_price |-> None,
         lowest_price |-> None,
         trailing_stop |-> None,
         trailing_activated |-> FALSE,
         exit_take_profit1 |-> FALSE,
         exit_take_profit2 |-> FALSE]

\* simulator.close_position(position, exit_time, exit_price, exit_reason):
\* the closed trade
close_position(position, exit_time, exit_price, exit_reason) ==
    [exit_time |-> exit_time,
     exit_price |-> exit_price,
     exit_reason |-> exit_reason,
     profit_loss |-> unrealized_pnl(position, exit_price)] @@ position

\* the simulator's consecutive-loss streak after a close with P&L pnl
losses_after_close_strict(losses, pnl) ==
    IF RLt(pnl, RZero) THEN losses + 1 ELSE 0

losses_after_close(losses, pnl) ==
    IF RLe(pnl, RZero) THEN losses + 1 ELSE 0

(***************************************************************************)
(* BacktestEngine.run: the steps of one tick.                              *)
(***************************************************************************)
Remove(f, k) ==
    [x \in DOMAIN f \ {k} |-> f[x]]

Put(f, k, v) ==
    [x \in DOMAIN f \cup {k} |-> IF x = k THEN v ELSE f[x]]

\* _update_positions: the loop over list(positions.items()), in insertion
\* order (ids are handed out in increasing order); st carries positions,
\* trades, the simulator's streak and the log of what was evaluated
RECURSIVE update_positions_loop(_, _, _)
update_positions_loop(ids, current_time, st) ==
    IF ids = <<>>
    THEN st
    ELSE LET position_id == Head(ids)
             position == st.positions[position_id]
             pair == position.pair
             current_price == _get_close_price(pair, current_time)
             checked == _check_exit_conditions(position, current_price, current_time)
             exit_reason == checked.reason
             entry == [id |-> position_id, time |-> current_time,
                       price |-> current_price,
                       bar |-> close_price_bar(pair, current_time),
                       before |-> position, after |-> checked.position,
                       reason |-> exit_reason]
             closed_position == close_position(checked.position, current_time, current_price, exit_reason)
         IN  update_positions_loop(Tail(ids), current_time,
               IF exit_reason # "NONE"
               THEN [positions |-> Remove(st.positions, position_id),
                     trades |-> Append(st.trades, closed_position),
                     losses |-> losses_after_close(st.losses, closed_position.profit_loss),
                     log |-> Append(st.log, entry)]
               ELSE [st EXCEPT !.positions[position_id] = checked.position,
                               !.log = Append(st.log, entry)])

_update_positions(ps, current_time, ledger, losses) ==
    update_positions_loop(Sorted(DOMAIN ps), current_time,
        [positions |-> ps, trades |-> ledger, losses |-> losses, log |-> <<>>])

\* run(), lines 112-118: the loop over the tick's signals; the equity passed
\* to the simulator is the one recorded at the previous tick
RECURSIVE execute_signals(_, _, _)
execute_signals(signals, current_time, st) ==
    IF signals = <<>>
    THEN st
    ELSE LET signal == Head(signals)
             peak == IF RGt(equity, st.peak) THEN equity ELSE st.peak
             admitted == simulator_can_open_position(signal, st.positions, equity, consecutive_losses, peak)
             position == open_position(signal, current_time, equity, st.next_id)
         IN  execute_signals(Tail(signals), current_time,
               IF admitted
               THEN [positions |-> Put(st.positions, position.id, position),
                     next_id |-> st.next_id + 1,
                     peak |-> peak]
               ELSE [st EXCEPT !.peak = peak])

\* what the strategy may return: the engine does not inspect how signals are
\* derived, so any of these may come at any tick.  In order: a LONG that
\* takes profit at 11, a LONG stopped at 10, a LONG whose levels are out of
\* reach of the prices, a SHORT, a LONG whose stop loss lies above its take
\* profit, and a LONG whose stop loss is 0.  No signal has entry price 0: the
\* P&L formula divides by the entry price.
Signals ==
    { Signal("LONG", R(10), R(9), R(11), R(12), Norm(1, 100)),
      Signal("LONG", R(11), R(10), R(12), R(13), Norm(1, 100)),
      Signal("LONG", R(10), R(8), R(13), R(14), Norm(1, 100)),
      Signal("SHORT", R(11), R(12), R(9), R(8), Norm(1, 100)),
      Signal("LONG", R(10), R(11), R(10), R(12), Norm(1, 100)),
      Signal("LONG", R(10), R(0), R(12), R(13), Norm(1, 100)) }

\* what generate_signals returns at one tick: no signal or one signal
SignalBatches ==
    {<<>>} \cup {<<signal>> : signal \in Signals}

\* strategy.generate_signals(current_time): the batches it may return
generate_signals(current_time) ==
    IF strategy = None
    THEN SignalBatches
    ELSE {strategy[current_time]}

RECURSIVE SeqsUpTo(_, _)
SeqsUpTo(S, n) ==
    IF n = 0
    THEN {<<>>}
    ELSE LET shorter == SeqsUpTo(S, n - 1)
         IN  shorter \cup {Append(q, x) : q \in shorter, x \in S}

\* the dictionaries load_data can build: per pair and timeframe, bars at some
\* of the timestamps of the window, each with a close price
\* a timeframe's bars: bar timestamp -> close
Frames(index_sets, closes) ==
    UNION {[index -> closes] : index \in index_sets}

\* the dictionaries load_data can build.  The primary timeframe has bars at
\* any of the timestamps of the window, with any closes; the engine reads no
\* close of the other timeframe, which has either no bar or one bar at every
\* timestamp, all with the same close.
MarketData ==
    [Pairs -> {tfs \in [Timeframes -> Frames(SUBSET Times, Prices)] :
                 \A tf \in Timeframes \ {primary_timeframe} :
                    tfs[tf] \in Frames({{}, Times}, {R(10)})}]

idle ==
    [fn |-> "idle"]

Init ==
    /\ market_data \in MarketData
    /\ pc = "start"
    /\ time_index = <<>>
    /\ tick = 0
    /\ equity = R(initial_capital)
    /\ equity_curve = <<>>
    /\ trades = <<>>
    /\ positions = <<>>
    /\ consecutive_losses = 0
    /\ peak_equity = R(initial_capital)
    /\ next_id = 1
    /\ exit_log = <<>>
    /\ strategy_data = None
    /\ strategy = None
    /\ run_no = 1
    /\ first_results = None
    /\ metrics = None
    /\ call = idle
    /\ TradingBot_init
    /\ MockExchange_init(NoBalance)

\* the timestamp the for loop stands at
tick_time ==
    time_index[tick]

\* run(), lines 90-96
StartRun ==
    /\ pc = "start"
    /\ equity' = R(initial_capital)
    /\ equity_curve' = <<<<start_date, R(initial_capital)>>>>
    /\ trades' = <<>>
    /\ positions' = <<>>
    /\ time_index' = _create_time_index
    /\ tick' = 1
    /\ pc' = IF time_index' = <<>> THEN "close_remaining" ELSE "update_positions"
    /\ exit_log' = <<>>
    /\ UNCHANGED <<bot_vars, exchange_vars, market_data, consecutive_losses, peak_equity, next_id, strategy_data,
                   strategy, run_no, first_results, metrics, call>>

\* run(), lines 100-106: the strategy receives the tick's slice of the market
\* data, then the open positions are evaluated
UpdatePositions ==
    /\ pc = "update_positions"
    /\ strategy_data' = _slice_data_to_time(tick_time)
    /\ LET st == _update_positions(positions, tick_time, trades, consecutive_losses)
       IN  /\ positions' = st.positions
           /\ trades' = st.trades
           /\ consecutive_losses' = st.losses
           /\ exit_log' = st.log
    /\ pc' = "signals"
    /\ UNCHANGED <<bot_vars, exchange_vars, market_data, time_index, tick, equity, equity_curve, peak_equity, next_id,
                   strategy, run_no, first_results, metrics, call>>

\* run(), lines 109-118
ExecuteSignals ==
    /\ pc = "signals"
    /\ \E signals \in generate_signals(tick_time) :
         LET st == execute_signals(signals, tick_time,
                        [positions |-> positions, next_id |-> next_id,
                         peak |-> peak_equity])
         IN  /\ st.next_id - 1 <= MaxOpens * run_no
             /\ positions' = st.positions
             /\ next_id' = st.next_id
             /\ peak_equity' = st.peak
    /\ pc' = "equity"
    /\ UNCHANGED <<bot_vars, exchange_vars, market_data, time_index, tick, equity, equity_curve, trades, consecutive_losses, exit_log, strategy_data, strategy, run_no, first_results, metrics, call>>

\* run(), line 122: equity_curve.append((current_time, equity))
append_equity_changes(curve, current_time, value) ==
    IF curve[Len(curve)][2] = value
    THEN curve
    ELSE Append(curve, <<current_time, value>>)

append_equity_skip(curve, current_time, value) ==
    curve

append_equity(curve, current_time, value) ==
    Append(curve, <<current_time, value>>)

\* run(), lines 121-122, and the step of the for loop
RecordEquity ==
    /\ pc = "equity"
    /\ equity' = _calculate_equity(positions, equity, tick_time)
    /\ equity_curve' = append_equity(equity_curve, tick_time, equity')
    /\ tick' = tick + 1
    /\ pc' = IF tick = Len(time_index) THEN "close_remaining" ELSE "update_positions"
    /\ UNCHANGED <<bot_vars, exchange_vars, market_data, time_index, trades, positions, consecutive_losses, peak_equity, next_id, exit_log, strategy_data, strategy, run_no, first_results, metrics, call>>

\* run(), lines 125-133: the positions left are closed at end_date
close_remaining_none(ids, st) ==
    st

RECURSIVE close_remaining_loop(_, _)
close_remaining_loop(ids, st) ==
    IF ids = <<>>
    THEN st
    ELSE LET position == st.positions[Head(ids)]
             closed == close_position(position, end_date,
                                      _get_close_price(position.pair, end_date),
                                      "END_OF_BACKTEST")
         IN  close_remaining_loop(Tail(ids),
               [positions |-> Remove(st.positions, Head(ids)),
                trades |-> Append(st.trades, closed),
                losses |-> losses_after_close(st.losses, closed.profit_loss)])

CloseRemaining ==
    /\ pc = "close_remaining"
    /\ LET st == close_remaining_loop(Sorted(DOMAIN positions),
                   [positions |-> positions, trades |-> trades, losses |-> consecutive_losses])
       IN  /\ positions' = st.positions
           /\ trades' = st.trades
           /\ consecutive_losses' = st.losses
    /\ pc' = "finalize"
    /\ UNCHANGED <<bot_vars, exchange_vars, market_data, time_index, tick, equity, equity_curve, peak_equity, next_id, exit_log, strategy_data, strategy, run_no, first_results, metrics, call>>

\* run(), lines 135-151: the metrics are computed and the results returned
Finalize ==
    /\ pc = "finalize"
    /\ metrics' = _calculate_metrics(trades, equity_curve, R(initial_capital))
    /\ pc' = "done"
    /\ UNCHANGED <<bot_vars, exchange_vars, market_data, time_index, tick, equity, equity_curve, trades, positions,
                   consecutive_losses, peak_equity, next_id, exit_log, strategy_data,
                   strategy, run_no, first_results, call>>

Next ==
    \/ StartRun
    \/ UpdatePositions
    \/ ExecuteSignals
    \/ RecordEquity
    \/ CloseRemaining
    \/ Finalize

Spec ==
    Init /\ [][Next]_vars

(***************************************************************************)
(* Replayed runs: the strategy's signals are fixed in advance, and run()   *)
(* is called a second time on the same engine with the same strategy.      *)
(***************************************************************************)
\* closes of the replayed runs: 1089/10 is 110 * 0.99 and 544/5 is 108.8
ReplayPrices ==
    {R(100), R(110), Norm(1089, 10), Norm(544, 5)}

\* a LONG and a SHORT whose stop loss and take profits are out of reach of
\* ReplayPrices, both trailing by 1%
ReplaySignals ==
    { Signal("LONG", R(100), R(95), R(120), R(130), Norm(1, 100)),
      Signal("SHORT", R(110), R(120), R(90), R(80), Norm(1, 100)) }

\* the timestamps at which the replayed strategies may signal
ReplaySignalTimes ==
    {0, 1}

ReplayStrategies ==
    {st \in [Times -> {<<>>} \cup {<<signal>> : signal \in ReplaySignals}] :
       \A t \in Times \ ReplaySignalTimes : st[t] = <<>>}

\* one pair with a primary bar at every timestamp and no other bars
ReplayData ==
    [Pairs -> {tfs \in [Timeframes -> Frames({{}, Times}, ReplayPrices)] :
                 /\ DOMAIN tfs[primary_timeframe] = Times
                 /\ \A tf \in Timeframes \ {primary_timeframe} : tfs[tf] = <<>>}]

InitReplay ==
    /\ market_data \in ReplayData
    /\ pc = "start"
    /\ time_index = <<>>
    /\ tick = 0
    /\ equity = R(initial_capital)
    /\ equity_curve = <<>>
    /\ trades = <<>>
    /\ positions = <<>>
    /\ consecutive_losses = 0
    /\ peak_equity = R(initial_capital)
    /\ next_id = 1
    /\ exit_log = <<>>
    /\ strategy_data = None
    /\ strategy \in ReplayStrategies
    /\ run_no = 1
    /\ first_results = None
    /\ metrics = None
    /\ call = idle
    /\ TradingBot_init
    /\ MockExchange_init(NoBalance)

\* run() has returned and is called again on the same engine: market_data
\* is kept (lines 82-84) and so is the simulator built by __init__ (line 43)
Rerun ==
    /\ pc = "done"
    /\ run_no = 1
    /\ first_results' = [trades |-> trades, equity_curve |-> equity_curve, metrics |-> metrics]
    /\ run_no' = 2
    /\ pc' = "start"
    /\ UNCHANGED <<bot_vars, exchange_vars, market_data, time_index, tick, equity, equity_curve, trades, positions,
                   consecutive_losses, peak_equity, next_id, exit_log, strategy_data,
                   strategy, metrics, call>>

NextReplay ==
    \/ Next
    \/ Rerun

SpecReplay ==
    InitReplay /\ [][NextReplay]_vars

(***************************************************************************)
(* The RiskCalculator alone: its two functions applied to inputs drawn     *)
(* from bounded sets.                                                      *)
(***************************************************************************)
\* capital, entry prices and stop levels tried on calculate_position_size
SizeCapitals ==
    {R(0), R(100), R(10000)}

SizePrices ==
    {R(-10), R(0), R(9), R(10), R(11), Norm(21, 2)}

\* open-position tables, streaks, equity histories and equities tried on
\* can_open_position
GateIds ==
    {1, 2}

GatePositions ==
    UNION {[ids -> [position_value : {R(30), R(40)}]] : ids \in SUBSET GateIds}

GateHistoryEquities ==
    {R(90), R(100), R(110)}

GateEquities ==
    {R(0), R(89), R(90), R(99), R(100), R(110)}

InitRisk ==
    /\ market_data = [p \in Pairs |-> [tf \in Timeframes |-> <<>>]]
    /\ pc = "risk"
    /\ time_index = <<>>
    /\ tick = 0
    /\ equity = R(initial_capital)
    /\ equity_curve = <<>>
    /\ trades = <<>>
    /\ positions = <<>>
    /\ consecutive_losses = 0
    /\ peak_equity = R(initial_capital)
    /\ next_id = 1
    /\ exit_log = <<>>
    /\ strategy_data = None
    /\ strategy = None
    /\ run_no = 1
    /\ first_results = None
    /\ metrics = None
    /\ call = idle
    /\ TradingBot_init
    /\ MockExchange_init(NoBalance)

CallCalculatePositionSize ==
    /\ pc = "risk"
    /\ call = idle
    /\ \E capital \in SizeCapitals, entry_price \in SizePrices, stop_loss \in SizePrices :
         call' = [fn |-> "calculate_position_size",
                  capital |-> capital,
                  entry_price |-> entry_price,
                  stop_loss |-> stop_loss,
                  result |-> calculate_position_size(capital, entry_price, stop_loss)]
    /\ UNCHANGED <<bot_vars, exchange_vars, market_data, pc, time_index, tick, equity, equity_curve, trades, positions,
                   consecutive_losses, peak_equity, next_id, exit_log, strategy_data,
                   strategy, run_no, first_results, metrics>>

CallCanOpenPosition ==
    /\ pc = "risk"
    /\ call = idle
    /\ \E current_positions \in GatePositions,
          losses \in 0..MaxLosses,
          curve \in SeqsUpTo(GateHistoryEquities, MaxHistory),
          current_equity \in GateEquities :
         call' = [fn |-> "can_open_position",
                  current_positions |-> current_positions,
                  consecutive_losses |-> losses,
                  equity_curve |-> curve,
                  current_equity |-> current_equity,
                  result |-> can_open_position(current_positions, losses, curve, current_equity)]
    /\ UNCHANGED <<bot_vars, exchange_vars, market_data, pc, time_index, tick, equity, equity_curve, trades, positions,
                   consecutive_losses, peak_equity, next_id, exit_log, strategy_data,
                   strategy, run_no, first_results, metrics>>

NextRisk ==
    \/ CallCalculatePositionSize
    \/ CallCanOpenPosition

SpecRisk ==
    InitRisk /\ [][NextRisk]_vars

(***************************************************************************)
(* The constructors and _calculate_metrics alone, applied to inputs drawn  *)
(* from bounded sets.                                                      *)
(***************************************************************************)
\* config.get(key, default) on a configuration given as a function from the
\* keys it holds to their values
config_get(config, key, default) ==
    IF key \in DOMAIN config THEN config[key] ELSE default

\* RiskCalculator.__init__(config): the attributes it sets
RiskCalculator_init(config) ==
    [max_risk_per_trade |-> config_get(config, "max_risk_per_trade", Norm(1, 100)),
     max_position_size_pct |-> config_get(config, "max_position_size_pct", Norm(2, 100)),
     max_total_exposure |-> config_get(config, "max_total_exposure", Norm(70, 100)),
     max_consecutive_losses |-> config_get(config, "max_consecutive_losses", 3),
     max_drawdown_pct |-> config_get(config, "max_drawdown_pct", Norm(10, 100))]

\* BacktestEngine.__init__(config) and the two values the engine reads from
\* the configuration during the run (lines 277 and 334): none of the reads
\* raises, a missing key yields the default
BacktestEngine_init(config) ==
    [error |-> "none",
     initial_capital |-> config_get(config, "initial_capital", 10000),
     max_position_duration_hours |-> config_get(config, "max_position_duration_hours", 48),
     primary_timeframe |-> config_get(config, "primary", "5m"),
     risk |-> RiskCalculator_init(config)]

\* the configured values of this model, any of which may be missing from the
\* configuration
FullConfig ==
    [k \in {"max_risk_per_trade", "max_position_size_pct", "max_total_exposure",
            "max_consecutive_losses", "max_drawdown_pct", "initial_capital",
            "max_position_duration_hours", "primary"} |->
       CASE k = "max_risk_per_trade" -> max_risk_per_trade
         [] k = "max_position_size_pct" -> max_position_size_pct
         [] k = "max_total_exposure" -> max_total_exposure
         [] k = "max_consecutive_losses" -> max_consecutive_losses
         [] k = "max_drawdown_pct" -> max_drawdown_pct
         [] k = "initial_capital" -> initial_capital
         [] k = "max_position_duration_hours" -> max_position_duration_hours
         [] k = "primary" -> primary_timeframe]

Configs ==
    {[k \in keys |-> FullConfig[k]] : keys \in SUBSET DOMAIN FullConfig}

\* ledgers of at most MaxTrades closed trades, of which _calculate_metrics
\* reads the profit_loss alone
MaxTrades == 2

MetricsLedgers ==
    SeqsUpTo([profit_loss : {R(-200), R(0), R(500)}], MaxTrades)

\* equity curves: the initial point, then up to MaxHistory points
MetricsCurves ==
    {[i \in 1..(Len(values) + 1) |->
        IF i = 1 THEN <<start_date, R(initial_capital)>> ELSE <<i - 1, values[i - 1]>>] :
       values \in SeqsUpTo({R(9800), R(10000), R(10300)}, MaxHistory)}

InitFunctions ==
    /\ market_data = [p \in Pairs |-> [tf \in Timeframes |-> <<>>]]
    /\ pc = "functions"
    /\ time_index = <<>>
    /\ tick = 0
    /\ equity = R(initial_capital)
    /\ equity_curve = <<>>
    /\ trades = <<>>
    /\ positions = <<>>
    /\ consecutive_losses = 0
    /\ peak_equity = R(initial_capital)
    /\ next_id = 1
    /\ exit_log = <<>>
    /\ strategy_data = None
    /\ strategy = None
    /\ run_no = 1
    /\ first_results = None
    /\ metrics = None
    /\ call = idle
    /\ TradingBot_init
    /\ MockExchange_init(NoBalance)

CallConstruct ==
    /\ pc = "functions"
    /\ call = idle
    /\ \E config \in Configs :
         call' = [fn |-> "BacktestEngine",
                  config |-> config,
                  result |-> BacktestEngine_init(config)]
    /\ UNCHANGED <<bot_vars, exchange_vars, market_data, pc, time_index, tick, equity, equity_curve, trades, positions,
                   consecutive_losses, peak_equity, next_id, exit_log, strategy_data,
                   strategy, run_no, first_results, metrics>>

CallCalculateMetrics ==
    /\ pc = "functions"
    /\ call = idle
    /\ \E ledger \in MetricsLedgers, curve \in MetricsCurves :
         call' = [fn |-> "_calculate_metrics",
                  trades |-> ledger,
                  equity_curve |-> curve,
                  initial_capital |-> R(initial_capital),
                  result |-> _calculate_metrics(ledger, curve, R(initial_capital))]
    /\ UNCHANGED <<bot_vars, exchange_vars, market_data, pc, time_index, tick, equity, equity_curve, trades, positions,
                   consecutive_losses, peak_equity, next_id, exit_log, strategy_data,
                   strategy, run_no, first_results, metrics>>

NextFunctions ==
    \/ CallConstruct
    \/ CallCalculateMetrics

SpecFunctions ==
    InitFunctions /\ [][NextFunctions]_vars

(***************************************************************************)
(* run_backtest.main: the caller of the engine.  It runs the backtest      *)
(* inside one try block, writes the results to a JSON file and returns     *)
(* them; any exception is logged and None is returned.                     *)
(***************************************************************************)
\* str(value): the string form of a timestamp or of a number, a value that
\* is neither.  Strings are coded as the negative integers.
str(timestamp) ==
    -(timestamp + 1)

\* strategy.generate_signals(current_time) raises at a tick (run(), line
\* 109): the loop has no handler, so the exception leaves run() with its
\* local ledger and equity curve, and main's handler returns None
SignalsRaise ==
    /\ pc = "signals"
    /\ pc' = "raised"
    /\ call' = [fn |-> "main", result |-> None]
    /\ UNCHANGED <<bot_vars, exchange_vars, market_data, time_index, tick, equity, equity_curve, trades, positions,
                   consecutive_losses, peak_equity, next_id, exit_log, strategy_data,
                   strategy, run_no, first_results, metrics>>

\* main, lines 116-126 and 144: results.copy() is a shallow copy, so the
\* equity curve is replaced in the copy only, while the loop over
\* serializable_results["trades"] writes into the trades of the ledger
Serialize ==
    /\ pc = "done"
    /\ trades' = [i \in DOMAIN trades |->
                    [trades[i] EXCEPT !.entry_time = str(@), !.exit_time = str(@)]]
    /\ call' = [fn |-> "main",
                result |-> [trades |-> trades', equity_curve |-> equity_curve,
                            metrics |-> metrics]]
    /\ pc' = "serialized"
    /\ UNCHANGED <<bot_vars, exchange_vars, market_data, time_index, tick, equity, equity_curve, positions,
                   consecutive_losses, peak_equity, next_id, exit_log, strategy_data,
                   strategy, run_no, first_results, metrics>>

NextMain ==
    \/ Next
    \/ SignalsRaise
    \/ Serialize

SpecMain ==
    InitReplay /\ [][NextMain]_vars

(***************************************************************************)
(* Runs over incomplete data: any of the series may be empty, and the      *)
(* strategy asks for one position at the start of the window.              *)
(***************************************************************************)
MissingStrategies ==
    {[t \in Times |-> IF t = start_date THEN <<signal>> ELSE <<>>] :
        signal \in {Signal("LONG", R(10), R(9), R(11), R(12), Norm(1, 100)),
                    Signal("SHORT", R(11), R(12), R(9), R(8), Norm(1, 100))}}

InitMissing ==
    /\ market_data \in MarketData
    /\ pc = "start"
    /\ time_index = <<>>
    /\ tick = 0
    /\ equity = R(initial_capital)
    /\ equity_curve = <<>>
    /\ trades = <<>>
    /\ positions = <<>>
    /\ consecutive_losses = 0
    /\ peak_equity = R(initial_capital)
    /\ next_id = 1
    /\ exit_log = <<>>
    /\ strategy_data = None
    /\ strategy \in MissingStrategies
    /\ run_no = 1
    /\ first_results = None
    /\ metrics = None
    /\ call = idle
    /\ TradingBot_init
    /\ MockExchange_init(NoBalance)

SpecMissing ==
    InitMissing /\ [][Next]_vars

(***************************************************************************)
(* Runs in which the prices reach both take-profit tiers of a position.    *)
(***************************************************************************)
\* a LONG and a SHORT whose two take-profit levels are within ReplayPrices
TierSignals ==
    { Signal("LONG", R(100), R(95), R(105), R(110), Norm(1, 100)),
      Signal("SHORT", R(110), R(120), R(109), R(100), Norm(1, 100)) }

\* the strategy signals at the first timestamp, so that the position is
\* open while the later prices arrive
TierSignalTimes ==
    {0}

TierStrategies ==
    {st \in [Times -> {<<>>} \cup {<<signal>> : signal \in TierSignals}] :
       \A t \in Times \ TierSignalTimes : st[t] = <<>>}

InitTiers ==
    /\ market_data \in ReplayData
    /\ pc = "start"
    /\ time_index = <<>>
    /\ tick = 0
    /\ equity = R(initial_capital)
    /\ equity_curve = <<>>
    /\ trades = <<>>
    /\ positions = <<>>
    /\ consecutive_losses = 0
    /\ peak_equity = R(initial_capital)
    /\ next_id = 1
    /\ exit_log = <<>>
    /\ strategy_data = None
    /\ strategy \in TierStrategies
    /\ run_no = 1
    /\ first_results = None
    /\ metrics = None
    /\ call = idle
    /\ TradingBot_init
    /\ MockExchange_init(NoBalance)

SpecTiers ==
    InitTiers /\ [][Next]_vars

(***************************************************************************)
(* Runs in which the strategy signals at every tick.                       *)
(***************************************************************************)
\* a LONG that is stopped at 10 and a SHORT that is out of reach of Prices
StreakSignals ==
    { Signal("LONG", R(11), R(10), R(12), R(13), Norm(1, 100)),
      Signal("SHORT", R(11), R(12), R(9), R(8), Norm(1, 100)) }

StreakStrategies ==
    [Times -> {<<signal>> : signal \in StreakSignals}]

InitStreak ==
    /\ market_data \in MarketData
    /\ pc = "start"
    /\ time_index = <<>>
    /\ tick = 0
    /\ equity = R(initial_capital)
    /\ equity_curve = <<>>
    /\ trades = <<>>
    /\ positions = <<>>
    /\ consecutive_losses = 0
    /\ peak_equity = R(initial_capital)
    /\ next_id = 1
    /\ exit_log = <<>>
    /\ strategy_data = None
    /\ strategy \in StreakStrategies
    /\ run_no = 1
    /\ first_results = None
    /\ metrics = None
    /\ call = idle
    /\ TradingBot_init
    /\ MockExchange_init(NoBalance)

SpecStreak ==
    InitStreak /\ [][Next]_vars

(***************************************************************************)
(* TradingBot (src/core/bot.py): start(), stop() and the polling threads.  *)
(* A thread running _run_loop stands at "check" (the while test, line      *)
(* 137), in "cycle" (the trading cycle, lines 139-151), in "sleep" (line   *)
(* 158) or has "exited"; "unborn" threads are those start() has yet to     *)
(* create.  One thread calls start() and stop().                           *)
(***************************************************************************)
InitBot ==
    /\ market_data = [p \in Pairs |-> [tf \in Timeframes |-> <<>>]]
    /\ pc = "bot"
    /\ time_index = <<>>
    /\ tick = 0
    /\ equity = R(initial_capital)
    /\ equity_curve = <<>>
    /\ trades = <<>>
    /\ positions = <<>>
    /\ consecutive_losses = 0
    /\ peak_equity = R(initial_capital)
    /\ next_id = 1
    /\ exit_log = <<>>
    /\ strategy_data = None
    /\ strategy = None
    /\ run_no = 1
    /\ first_results = None
    /\ metrics = None
    /\ call = idle
    /\ TradingBot_init
    /\ MockExchange_init(NoBalance)

\* start(), line 99: if self.is_running
already_running_never ==
    FALSE

already_running ==
    is_running

\* stop(), line 115: if not self.is_running
not_running_never ==
    FALSE

not_running ==
    ~is_running

\* start(), lines 92-109
Start ==
    /\ pc = "bot"
    /\ caller = "idle"
    /\ IF already_running
       THEN /\ call' = [fn |-> "start", created |-> 0]
            /\ UNCHANGED <<is_running, bot_thread, threads>>
       ELSE \E t \in Threads :
              /\ threads[t] = "unborn"
              /\ \A u \in Threads : u < t => threads[u] # "unborn"
              /\ is_running' = TRUE
              /\ bot_thread' = t
              /\ threads' = [threads EXCEPT ![t] = "check"]
              /\ call' = [fn |-> "start", created |-> t]
    /\ UNCHANGED <<engine_vars, caller, exchange_vars>>

\* stop(), lines 111-120: the early return, or is_running is set to False
\* and the caller goes on to the join
Stop ==
    /\ pc = "bot"
    /\ caller = "idle"
    /\ IF not_running
       THEN /\ call' = [fn |-> "stop", closed_positions |-> FALSE]
            /\ UNCHANGED <<is_running, caller>>
       ELSE /\ is_running' = FALSE
            /\ caller' = "joining"
            /\ call' = idle
    /\ UNCHANGED <<engine_vars, bot_thread, threads, exchange_vars>>

\* stop(), lines 123-128: join(timeout=10) returns when the thread has ended
\* or when the ten seconds are over, whichever comes first; then the
\* positions are closed (close_positions_on_stop defaults to True)
StopReturns ==
    /\ pc = "bot"
    /\ caller = "joining"
    /\ caller' = "idle"
    /\ call' = [fn |-> "stop", closed_positions |-> TRUE]
    /\ UNCHANGED <<engine_vars, is_running, bot_thread, threads, exchange_vars>>

\* _run_loop, line 137: while self.is_running
LoopCheck(t) ==
    /\ pc = "bot"
    /\ threads[t] = "check"
    /\ threads' = [threads EXCEPT ![t] = IF is_running THEN "cycle" ELSE "exited"]
    /\ UNCHANGED <<engine_vars, call, is_running, bot_thread, caller, exchange_vars>>

\* _run_loop, lines 139-158: the cycle ends without an exception; the thread
\* sleeps when there is time left in the interval
CycleCompletes(t) ==
    /\ pc = "bot"
    /\ threads[t] = "cycle"
    /\ \E wait_time_positive \in BOOLEAN :
         threads' = [threads EXCEPT ![t] = IF wait_time_positive THEN "sleep" ELSE "check"]
    /\ UNCHANGED <<engine_vars, call, is_running, bot_thread, caller, exchange_vars>>

\* _run_loop, lines 160-162: an exception raised in the cycle is logged
CycleRaises(t) ==
    /\ pc = "bot"
    /\ threads[t] = "cycle"
    /\ threads' = [threads EXCEPT ![t] = "check"]
    /\ UNCHANGED <<engine_vars, call, is_running, bot_thread, caller, exchange_vars>>

\* _run_loop, line 158: time.sleep(wait_time) returns
Wake(t) ==
    /\ pc = "bot"
    /\ threads[t] = "sleep"
    /\ threads' = [threads EXCEPT ![t] = "check"]
    /\ UNCHANGED <<engine_vars, call, is_running, bot_thread, caller, exchange_vars>>

NextBot ==
    \/ Start
    \/ Stop
    \/ StopReturns
    \/ \E t \in Threads : LoopCheck(t)
    \/ \E t \in Threads : CycleCompletes(t)
    \/ \E t \in Threads : CycleRaises(t)
    \/ \E t \in Threads : Wake(t)

SpecBot ==
    InitBot /\ [][NextBot]_vars

\* every thread is scheduled, every sleep ends and every cycle ends, with or
\* without an exception
SpecBotFair ==
    /\ InitBot
    /\ [][NextBot]_vars
    /\ \A t \in Threads :
         /\ WF_vars(LoopCheck(t))
         /\ WF_vars(Wake(t))
         /\ WF_vars(CycleCompletes(t) \/ CycleRaises(t))

(***************************************************************************)
(* MockExchange (src/exchanges/mock_exchange.py): create_order.            *)
(***************************************************************************)
\* the most orders created on one exchange
MaxOrders ==
    3

\* the currencies of the symbol "BTC/USDT": symbol.split('/')
base_currency ==
    "BTC"

quote_currency ==
    "USDT"

\* config "initial_balance": non-negative balances
InitialBalances ==
    {[currency \in {quote_currency, base_currency} |->
        IF currency = quote_currency THEN usdt ELSE btc] :
            usdt \in {R(0), R(10), R(25)}, btc \in {R(0), R(1)}}

\* the arguments of create_order: positive amounts and prices
OrderSides ==
    {"BUY", "SELL", "HOLD"}

OrderTypes ==
    {"LIMIT", "MARKET"}

OrderAmounts ==
    {R(1)}

OrderPrices ==
    {None, R(10)}

\* get_ticker(symbol)["last"]: a positive price
TickerPrices ==
    {R(11)}

\* lines 196 and 204: self.balance[currency] < required
insufficient_never(available, required) ==
    FALSE

insufficient(available, required) ==
    RLt(available, required)

\* line 212: self.order_id_counter += 1
next_order_id_same(counter) ==
    counter

next_order_id(counter) ==
    counter + 1

\* create_order(symbol, order_type, side, amount, price) on the exchange
\* state ex, where last is the ticker's last price: the state it leaves and
\* whether it raised.  The order's timestamp fields are left out.
create_order(ex, order_type, side, amount, price, last) ==
    LET current_price == IF price = None \/ order_type = "MARKET" THEN last ELSE price
        cost == RMul(amount, current_price)
        rejected ==
            \/ side = "BUY" /\ insufficient(ex.balance[quote_currency], cost)
            \/ side = "SELL" /\ insufficient(ex.balance[base_currency], amount)
        new_balance ==
            IF side = "BUY"
            THEN [ex.balance EXCEPT ![quote_currency] = RSub(@, cost),
                                    ![base_currency] = RAdd(@, amount)]
            ELSE IF side = "SELL"
            THEN [ex.balance EXCEPT ![base_currency] = RSub(@, amount),
                                    ![quote_currency] = RAdd(@, cost)]
            ELSE ex.balance
        counter == next_order_id(ex.order_id_counter)
        order_id == str(counter)
        order == [id |-> order_id,
                  symbol |-> "BTC/USDT",
                  type |-> order_type,
                  side |-> side,
                  amount |-> amount,
                  price |-> current_price,
                  cost |-> cost,
                  filled |-> amount,
                  remaining |-> RZero,
                  status |-> "closed",
                  fee |-> [currency |-> IF side = "BUY" THEN quote_currency ELSE base_currency,
                           cost |-> RMul(cost, Norm(1, 1000)),
                           rate |-> Norm(1, 1000)]]
    IN  IF rejected
        THEN [raised |-> TRUE, cost |-> cost, balance |-> ex.balance, orders |-> ex.orders,
              order_id_counter |-> ex.order_id_counter]
        ELSE [raised |-> FALSE, cost |-> cost, balance |-> new_balance,
              orders |-> Put(ex.orders, order_id, order),
              order_id_counter |-> counter]

InitExchange ==
    /\ market_data = [p \in Pairs |-> [tf \in Timeframes |-> <<>>]]
    /\ pc = "exchange"
    /\ time_index = <<>>
    /\ tick = 0
    /\ equity = R(initial_capital)
    /\ equity_curve = <<>>
    /\ trades = <<>>
    /\ positions = <<>>
    /\ consecutive_losses = 0
    /\ peak_equity = R(initial_capital)
    /\ next_id = 1
    /\ exit_log = <<>>
    /\ strategy_data = None
    /\ strategy = None
    /\ run_no = 1
    /\ first_results = None
    /\ metrics = None
    /\ call = idle
    /\ TradingBot_init
    /\ \E initial_balance \in InitialBalances : MockExchange_init(initial_balance)

\* one call of create_order, lines 167-244
CreateOrder ==
    /\ pc = "exchange"
    /\ order_id_counter < MaxOrders
    /\ \E order_type \in OrderTypes, side \in OrderSides, amount \in OrderAmounts,
          price \in OrderPrices, last \in TickerPrices :
         LET ex == [balance |-> balance, orders |-> orders,
                    order_id_counter |-> order_id_counter]
             result == create_order(ex, order_type, side, amount, price, last)
         IN  /\ balance' = result.balance
             /\ orders' = result.orders
             /\ order_id_counter' = result.order_id_counter
             /\ call' = [fn |-> "create_order", side |-> side, amount |-> amount,
                         cost |-> result.cost, balance |-> balance,
                         raised |-> result.raised]
    /\ UNCHANGED <<engine_vars, bot_vars>>

NextExchange ==
    CreateOrder

SpecExchange ==
    InitExchange /\ [][NextExchange]_vars

(***************************************************************************)
(* Properties.                                                             *)
(***************************************************************************)
LogEntries ==
    {exit_log[i] : i \in DOMAIN exit_log}

Ledger ==
    {trades[i] : i \in DOMAIN trades}

\* the five exit conditions of section 4.4, on the position as it stood
\* before the tick's evaluation
CondStopLoss(p, price) ==
    IF p.direction = "LONG" THEN RLe(price, p.stop_loss) ELSE RGe(price, p.stop_loss)

CondTakeProfit1(p, price) ==
    /\ ~p.exit_take_profit1
    /\ IF p.direction = "LONG" THEN RGe(price, p.take_profit1) ELSE RLe(price, p.take_profit1)

CondTakeProfit2(p, price) ==
    /\ p.exit_take_profit1
    /\ ~p.exit_take_profit2
    /\ IF p.direction = "LONG" THEN RGe(price, p.take_profit2) ELSE RLe(price, p.take_profit2)

CondTrailingStop(p, price) ==
    /\ p.trailing_stop # None
    /\ p.trailing_activated
    /\ IF p.direction = "LONG" THEN RLe(price, p.trailing_stop) ELSE RGe(price, p.trailing_stop)

CondTimeLimit(p, t) ==
    t - p.entry_time > max_position_duration_hours

FirstMatch(p, price, t) ==
    CASE CondStopLoss(p, price) -> "STOP_LOSS"
      [] ~CondStopLoss(p, price) /\ CondTakeProfit1(p, price) -> "TAKE_PROFIT1"
      [] ~CondStopLoss(p, price) /\ ~CondTakeProfit1(p, price) /\ CondTakeProfit2(p, price) -> "TAKE_PROFIT2"
      [] ~CondStopLoss(p, price) /\ ~CondTakeProfit1(p, price) /\ ~CondTakeProfit2(p, price)
           /\ CondTrailingStop(p, price) -> "TRAILING_STOP"
      [] ~CondStopLoss(p, price) /\ ~CondTakeProfit1(p, price) /\ ~CondTakeProfit2(p, price)
           /\ ~CondTrailingStop(p, price) /\ CondTimeLimit(p, t) -> "TIME_LIMIT"
      [] OTHER -> "NONE"

\* C1: whenever the stop-loss condition and the first take-profit condition
\* both hold for a position at a tick, the exit reason returned for it is
\* STOP_LOSS.
C1_StopLossWins ==
    \A e \in LogEntries :
        CondStopLoss(e.before, e.price) /\ CondTakeProfit1(e.before, e.price)
            => e.reason = "STOP_LOSS"

C1_Witness ==
    \E e \in LogEntries :
        /\ CondStopLoss(e.before, e.price)
        /\ CondTakeProfit1(e.before, e.price)
        /\ e.reason = "STOP_LOSS"

\* C2: the exit evaluation returns the first matching reason in the order
\* STOP_LOSS, TAKE_PROFIT1, TAKE_PROFIT2, TRAILING_STOP, TIME_LIMIT, and no
\* reason exactly when none of the five conditions holds; a position is
\* closed exactly when a reason is returned, with that one reason, and no
\* position is in the ledger twice.
C2_FirstMatchingReason ==
    /\ \A e \in LogEntries :
        /\ e.reason = FirstMatch(e.before, e.price, e.time)
        /\ e.reason = "NONE" <=>
             ~ \/ CondStopLoss(e.before, e.price)
               \/ CondTakeProfit1(e.before, e.price)
               \/ CondTakeProfit2(e.before, e.price)
               \/ CondTrailingStop(e.before, e.price)
               \/ CondTimeLimit(e.before, e.time)
        /\ e.reason # "NONE" =>
             /\ e.id \notin DOMAIN positions
             /\ \E tr \in Ledger : tr.id = e.id /\ tr.exit_reason = e.reason
        /\ e.reason = "NONE" =>
             \/ e.id \in DOMAIN positions
             \/ \E tr \in Ledger : tr.id = e.id /\ tr.exit_reason = "END_OF_BACKTEST"
    /\ \A i, j \in DOMAIN trades : trades[i].id = trades[j].id => i = j

C2_Witness ==
    \E e \in LogEntries :
        /\ CondTrailingStop(e.before, e.price)
        /\ CondTimeLimit(e.before, e.time)
        /\ e.reason = "TRAILING_STOP"
        /\ \E tr \in Ledger : tr.id = e.id /\ tr.exit_reason = "TRAILING_STOP"

\* C3: every closed trade of the ledger, the trades force-closed at the end
\* included, has exit_time >= entry_time, and a trade closed for TIME_LIMIT
\* was open strictly longer than max_position_duration_hours.
C3_TradeTimes ==
    \A tr \in Ledger :
        /\ tr.exit_time >= tr.entry_time
        /\ tr.exit_reason = "TIME_LIMIT" =>
             tr.exit_time - tr.entry_time > max_position_duration_hours

C3_Witness ==
    /\ pc = "done"
    /\ \E tr \in Ledger : tr.exit_reason = "TIME_LIMIT"
    /\ \E tr \in Ledger : tr.exit_reason = "END_OF_BACKTEST"

\* C4: the timestamps of the equity curve are strictly increasing from one
\* entry to the next, the initial point at start_date and the first tick's
\* entry included, and all lie within [start_date, end_date].
C4_CurveStrictlyIncreasing ==
    /\ \A i \in 1..(Len(equity_curve) - 1) : equity_curve[i][1] < equity_curve[i + 1][1]
    /\ \A i \in DOMAIN equity_curve :
        equity_curve[i][1] >= start_date /\ equity_curve[i][1] <= end_date

\* C5: the risk gate rejects whenever consecutive_losses >=
\* max_consecutive_losses, whatever the drawdown, the exposure and the equity.
C5_RejectsAtLossLimit ==
    call.fn = "can_open_position" /\ call.consecutive_losses >= max_consecutive_losses
        => call.result = FALSE

C5_Witness ==
    /\ call.fn = "can_open_position"
    /\ call.consecutive_losses = max_consecutive_losses
    /\ call.current_positions = <<>>
    /\ call.equity_curve = <<>>
    /\ call.current_equity = R(110)
    /\ call.result = FALSE

\* the peak of a non-empty equity history
PeakOf(curve) ==
    CHOOSE x \in {curve[i] : i \in DOMAIN curve} : \A i \in DOMAIN curve : RLe(curve[i], x)

\* the summed notional value of a position table
RECURSIVE NotionalOf(_, _)
NotionalOf(ps, ids) ==
    IF ids = <<>> THEN RZero
    ELSE RAdd(NotionalOf(ps, Tail(ids)), ps[Head(ids)].position_value)

\* C6: can_open_position returns False exactly when the streak is at its
\* limit, or the history is non-empty and (peak - equity)/peak strictly
\* exceeds max_drawdown_pct, or the summed notional value of the open
\* positions is >= equity * max_total_exposure; otherwise it returns True.
C6_GateIff ==
    call.fn = "can_open_position" =>
        LET streak == call.consecutive_losses >= max_consecutive_losses
            drawdown ==
                /\ call.equity_curve # <<>>
                /\ LET peak == PeakOf(call.equity_curve)
                   IN  RGt(RMul(R(max_drawdown_pct[2]), RSub(peak, call.current_equity)),
                           RMul(R(max_drawdown_pct[1]), peak))
            exposure ==
                RGe(RMul(R(max_total_exposure[2]),
                         NotionalOf(call.current_positions, Sorted(DOMAIN call.current_positions))),
                    RMul(R(max_total_exposure[1]), call.current_equity))
        IN  /\ call.result \in BOOLEAN
            /\ call.result = FALSE <=> (streak \/ drawdown \/ exposure)

C6_Witness ==
    /\ call.fn = "can_open_position"
    /\ call.consecutive_losses = 0
    /\ call.equity_curve = <<R(100)>>
    /\ call.current_equity = R(90)
    /\ call.current_positions = <<>>
    /\ call.result = TRUE

\* C7: a position enters the open-position table only with a computed size
\* > 0: a signal whose sizing yields 0 produces neither an open position nor
\* a ledger entry.
C7_NoZeroSizePosition ==
    /\ \A id \in DOMAIN positions : RGt(positions[id].position_size, RZero)
    /\ \A tr \in Ledger : RGt(tr.position_size, RZero)

\* the risked fraction |entry - stop| / entry of a sizing call
StopDistance(c) ==
    RDiv(RAbs(RSub(c.entry_price, c.stop_loss)), c.entry_price)

\* C8: position sizing returns 0 whenever the entry price is 0, the stop
\* loss is 0 or the stop distance is zero or negative; for every other input
\* with capital > 0 it returns a strictly positive size.
C8_SizeZeroOrPositive ==
    call.fn = "calculate_position_size" =>
        LET degenerate ==
                \/ call.entry_price = RZero
                \/ call.stop_loss = RZero
                \/ RLe(StopDistance(call), RZero)
        IN  /\ degenerate => call.result = RZero
            /\ ~degenerate /\ RGt(call.capital, RZero) => RGt(call.result, RZero)

\* C9: for non-degenerate inputs calculate_position_size returns
\* min((capital * max_risk_per_trade) / (|entry - stop| / entry),
\* capital * max_position_size_pct), and the returned size never exceeds
\* capital * max_position_size_pct.
C9_SizeIsCappedRiskSize ==
    call.fn = "calculate_position_size" =>
        LET cap == RMul(call.capital, max_position_size_pct)
            distance == RAbs(RSub(call.entry_price, call.stop_loss))
            raw == Norm(call.capital[1] * max_risk_per_trade[1] * call.entry_price[1] * distance[2],
                        call.capital[2] * max_risk_per_trade[2] * call.entry_price[2] * distance[1])
            nondegenerate ==
                call.entry_price # RZero /\ call.stop_loss # RZero /\ distance # RZero
        IN  /\ nondegenerate => call.result = (IF RLe(raw, cap) THEN raw ELSE cap)
            /\ RLe(call.result, cap)

C9_Witness ==
    /\ call.fn = "calculate_position_size"
    /\ call.capital = R(10000)
    /\ call.entry_price = R(10)
    /\ call.stop_loss = R(9)
    /\ call.result = R(200)

\* C10: every price used at tick t to evaluate exits is the close of a bar
\* whose timestamp is <= t.
C10_NoFutureBar ==
    \A e \in LogEntries : e.bar # None => e.bar[1] <= e.time

\* C11: at every tick, for every pair and timeframe, the data handed to the
\* strategy holds exactly the bars of the market data whose timestamp is <=
\* the tick's time, with their closes.
C11_SliceIsHistoryUpTo ==
    pc \in {"signals", "equity"} =>
        /\ DOMAIN strategy_data = DOMAIN market_data
        /\ \A p \in DOMAIN market_data :
            /\ DOMAIN strategy_data[p] = DOMAIN market_data[p]
            /\ \A tf \in DOMAIN market_data[p] :
                /\ DOMAIN strategy_data[p][tf] = {b \in DOMAIN market_data[p][tf] : b <= tick_time}
                /\ \A b \in DOMAIN strategy_data[p][tf] :
                      strategy_data[p][tf][b] = market_data[p][tf][b]

C11_Witness ==
    /\ pc = "signals"
    /\ \E p \in DOMAIN market_data, tf \in Timeframes :
         /\ \E b \in DOMAIN market_data[p][tf] : b > tick_time
         /\ tick_time \in DOMAIN strategy_data[p][tf]
         /\ \E b \in DOMAIN strategy_data[p][tf] : b < tick_time

\* C12: when run() is called a second time on the same market data,
\* configuration and signal sequence, it returns the trade ledger and the
\* equity curve that the first call returned.
C12_RerunIdentical ==
    pc = "done" /\ run_no = 2 =>
        /\ trades = first_results.trades
        /\ equity_curve = first_results.equity_curve

\* C13: when the loop is over no position is open and every position ever
\* opened is in the ledger exactly once; the positions still open after the
\* last tick are closed at end_date with reason END_OF_BACKTEST; a position
\* for which no exit condition holds at a tick is still open after that tick.
C13_AllClosedAtEnd ==
    [][/\ pc' \in {"finalize", "done"} =>
            /\ DOMAIN positions' = {}
            /\ \A id \in 1..(next_id' - 1) :
                  Cardinality({i \in DOMAIN trades' : trades'[i].id = id}) = 1
       /\ pc = "close_remaining" =>
            \A id \in DOMAIN positions :
                \E i \in DOMAIN trades' :
                    /\ trades'[i].id = id
                    /\ trades'[i].exit_reason = "END_OF_BACKTEST"
                    /\ trades'[i].exit_time = end_date
       /\ pc = "update_positions" =>
            \A i \in DOMAIN exit_log' :
                LET e == exit_log'[i]
                IN  FirstMatch(e.before, e.price, e.time) = "NONE" => e.id \in DOMAIN positions'
      ]_vars

C13_Witness ==
    /\ pc = "done"
    /\ \E e \in LogEntries :
         /\ e.price = e.before.entry_price
         /\ FirstMatch(e.before, e.price, e.time) = "NONE"
         /\ \E tr \in Ledger : tr.id = e.id /\ tr.exit_reason = "END_OF_BACKTEST"

\* C14: a LONG position with an active trailing stop, at a tick whose price
\* is <= the trailing stop level while neither the stop-loss nor a
\* take-profit condition holds, is closed with reason TRAILING_STOP.
C14_TrailingStopCloses ==
    \A e \in LogEntries :
        /\ e.before.direction = "LONG"
        /\ e.before.trailing_activated
        /\ e.before.trailing_stop # None
        /\ RLe(e.price, e.before.trailing_stop)
        /\ ~CondStopLoss(e.before, e.price)
        /\ ~CondTakeProfit1(e.before, e.price)
        /\ ~CondTakeProfit2(e.before, e.price)
        => /\ e.reason = "TRAILING_STOP"
           /\ e.id \notin DOMAIN positions
           /\ \E tr \in Ledger : tr.id = e.id /\ tr.exit_reason = "TRAILING_STOP"

\* trailing by 1%, the price has risen to 110 and falls to 108.8
C14_Witness ==
    \E e \in LogEntries :
        /\ e.before.direction = "LONG"
        /\ e.before.trailing_stop_pct = Norm(1, 100)
        /\ e.before.highest_price = R(110)
        /\ e.price = Norm(544, 5)
        /\ e.reason = "TRAILING_STOP"

\* C15: an evaluation never lowers a LONG position's highest_price or
\* trailing stop level, never raises a SHORT position's lowest_price or
\* trailing stop level, and never deactivates trailing; between evaluations
\* the position is kept as the evaluation left it.
C15_RatchetNeverLoosens ==
    \A e \in LogEntries :
        /\ e.before.trailing_activated => e.after.trailing_activated
        /\ e.before.trailing_stop # None => e.after.trailing_stop # None
        /\ e.before.direction = "LONG" =>
             /\ e.before.highest_price # None =>
                   e.after.highest_price # None /\ RGe(e.after.highest_price, e.before.highest_price)
             /\ e.before.trailing_stop # None =>
                   RGe(e.after.trailing_stop, e.before.trailing_stop)
        /\ e.before.direction = "SHORT" =>
             /\ e.before.lowest_price # None =>
                   e.after.lowest_price # None /\ RLe(e.after.lowest_price, e.before.lowest_price)
             /\ e.before.trailing_stop # None =>
                   RLe(e.after.trailing_stop, e.before.trailing_stop)
        /\ e.id \in DOMAIN positions /\ pc \in {"signals", "equity"} =>
             positions[e.id] = e.after

C15_Witness ==
    \E e \in LogEntries :
        /\ e.before.direction = "LONG"
        /\ e.before.trailing_stop # None
        /\ RGt(e.after.trailing_stop, e.before.trailing_stop)
        /\ RGt(e.after.highest_price, e.before.highest_price)

\* the last point of the equity curve was recorded at a tick and nothing has
\* touched the positions since
JustRecorded ==
    /\ pc \in {"update_positions", "close_remaining"}
    /\ Len(equity_curve) > 1

LastPoint ==
    equity_curve[Len(equity_curve)]

\* sum over the open positions ids of the unrealized P&L at time t:
\* (price - entry) / entry * size * entry for LONG, the negation for SHORT
RECURSIVE UnrealizedSum(_, _)
UnrealizedSum(ids, t) ==
    IF ids = {}
    THEN RZero
    ELSE LET id == CHOOSE x \in ids : TRUE
             p == positions[id]
             price == _get_close_price(p.pair, t)
             long == RMul(RMul(RDiv(RSub(price, p.entry_price), p.entry_price), p.position_size),
                          p.entry_price)
         IN  RAdd(IF p.direction = "LONG" THEN long ELSE RSub(RZero, long),
                  UnrealizedSum(ids \ {id}, t))

\* sum of the realized P&L of the ledger
RealizedSum ==
    RSumSeq([i \in DOMAIN trades |-> trades[i].profit_loss])

\* C16: the equity appended at a tick is initial_capital plus the sum of the
\* unrealized P&L, at the tick's snapshot price, of the positions open after
\* the tick's exits and openings.
C16_EquityIsBaselinePlusUnrealized ==
    JustRecorded =>
        LastPoint[2] = RAdd(R(initial_capital), UnrealizedSum(DOMAIN positions, LastPoint[1]))

C16_Witness ==
    /\ JustRecorded
    /\ Len(equity_curve) > 2
    /\ DOMAIN positions # {}
    /\ LastPoint[2] # R(initial_capital)
    /\ equity_curve[Len(equity_curve) - 1][2] # R(initial_capital)
    /\ equity_curve[Len(equity_curve) - 1][2] # LastPoint[2]

\* C17: at a tick after which no position is open, the equity recorded is
\* initial capital plus the sum of the realized P&L of the trades closed so
\* far.
C17_RealizedFolded ==
    JustRecorded /\ DOMAIN positions = {} =>
        LastPoint[2] = RAdd(R(initial_capital), RealizedSum)

\* C18: the equity curve is the initial point followed by one point per tick
\* processed, in timeline order; with an empty timeline the strategy is
\* never given data and the curve is the initial point alone.
C18_OnePointPerTick ==
    pc # "start" =>
        /\ equity_curve[1] = <<start_date, R(initial_capital)>>
        /\ \A i \in 2..Len(equity_curve) : equity_curve[i][1] = time_index[i - 1]
        /\ pc \in {"update_positions", "signals", "equity"} => Len(equity_curve) = tick
        /\ pc \in {"close_remaining", "finalize", "done"} =>
              Len(equity_curve) = Len(time_index) + 1
        /\ time_index = <<>> =>
              /\ strategy_data = None
              /\ equity_curve = <<<<start_date, R(initial_capital)>>>>
              /\ trades = <<>>

C18_Witness ==
    /\ pc = "done"
    /\ time_index = <<>>
    /\ Len(equity_curve) = 1
    /\ strategy_data = None

\* C19: the timeline holds exactly the bar timestamps of all series that lie
\* within [start_date, end_date], each once, in strictly increasing order.
C19_TimelineIsWindowedUnion ==
    pc # "start" =>
        /\ {time_index[i] : i \in DOMAIN time_index}
             = {t \in UNION {DOMAIN market_data[p][tf] : p \in Pairs, tf \in Timeframes} :
                  start_date <= t /\ t <= end_date}
        /\ \A i, j \in DOMAIN time_index : i < j => time_index[i] < time_index[j]

C19_Witness ==
    /\ pc # "start"
    /\ Len(time_index) > 1
    /\ \E p \in Pairs :
         \E tf \in Timeframes \ {primary_timeframe} :
             /\ \E t \in DOMAIN market_data[p][primary_timeframe] : t \in DOMAIN market_data[p][tf]
             /\ \E t \in DOMAIN market_data[p][tf] : t \notin DOMAIN market_data[p][primary_timeframe]

\* C20: when the ledger is empty the metrics have win_rate 0, profit_factor
\* 0 and sharpe ratio 0.
C20_EmptyLedgerMetrics ==
    pc = "done" /\ trades = <<>> =>
        /\ metrics.win_rate = RZero
        /\ metrics.profit_factor = RZero
        /\ metrics.sharpe_ratio = RZero

\* C21: with initial capital 10000 and a ledger of one trade of +500 and
\* one trade of -200, the metrics are roi 0.03, win_rate 0.5 and
\* profit_factor 2.5.
C21_ScenarioMetrics ==
    /\ call.fn = "_calculate_metrics"
    /\ call.initial_capital = R(10000)
    /\ Len(call.trades) = 2
    /\ {call.trades[i].profit_loss : i \in DOMAIN call.trades} = {R(500), R(-200)}
    => /\ call.result.roi = Norm(3, 100)
       /\ call.result.win_rate = Norm(1, 2)
       /\ call.result.profit_factor = Norm(5, 2)

\* the mean of the values of a non-empty set of ledger positions under f
RECURSIVE SumOver(_, _)
SumOver(idx, f) ==
    IF idx = {}
    THEN RZero
    ELSE LET i == CHOOSE x \in idx : TRUE
         IN  RAdd(f[i], SumOver(idx \ {i}, f))

\* C22: for a non-empty ledger, profit_factor is avgProfit / avgLoss when
\* avgLoss > 0, and it is +infinity only when avgLoss is 0 and at least one
\* trade has a P&L > 0.
C22_ProfitFactor ==
    call.fn = "_calculate_metrics" /\ call.trades # <<>> =>
        LET pnl == [i \in DOMAIN call.trades |-> call.trades[i].profit_loss]
            winners == {i \in DOMAIN pnl : RGt(pnl[i], RZero)}
            losers == DOMAIN pnl \ winners
            avgProfit == IF winners = {} THEN RZero
                         ELSE RDiv(SumOver(winners, pnl), R(Cardinality(winners)))
            avgLoss == IF losers = {} THEN RZero
                       ELSE RDiv(SumOver(losers, [i \in DOMAIN pnl |-> RAbs(pnl[i])]),
                                 R(Cardinality(losers)))
        IN  /\ RGt(avgLoss, RZero) => call.result.profit_factor = RDiv(avgProfit, avgLoss)
            /\ call.result.profit_factor = Infinity => avgLoss = RZero /\ winners # {}

\* C25: constructing the engine from a configuration that lacks a risk or
\* timeframe parameter ends in a ConfigurationError.
C25_MissingConfigIsFatal ==
    call.fn = "BacktestEngine" /\ DOMAIN call.config # DOMAIN FullConfig
        => call.result.error = "ConfigurationError"

\* C24: when a pair has no primary-timeframe data, the close-price lookup
\* returns 0 and that price does not by itself close a position: no price
\* exit (stop loss, take profit, trailing stop) is taken on it.
C24_NoDataPriceClosesNothing ==
    \A e \in LogEntries :
        e.bar = None =>
            /\ e.price = RZero
            /\ e.reason \notin {"STOP_LOSS", "TAKE_PROFIT1", "TAKE_PROFIT2", "TRAILING_STOP"}

\* the number of most recent consecutive closes with P&L <= 0
RECURSIVE TrailingLosses(_)
TrailingLosses(ledger) ==
    IF ledger = <<>>
    THEN 0
    ELSE IF RLe(ledger[Len(ledger)].profit_loss, RZero)
         THEN 1 + TrailingLosses(SubSeq(ledger, 1, Len(ledger) - 1))
         ELSE 0

\* C27: consecutive_losses is never negative and always equals the number of
\* most recent consecutive closes with P&L <= 0: a break-even close
\* increments it and a winning close resets it to 0.
C27_StreakIsTrailingLosses ==
    /\ consecutive_losses >= 0
    /\ consecutive_losses = TrailingLosses(trades)

\* a winning close followed by a break-even close: the streak is 1
C27_Witness ==
    /\ Len(trades) = 2
    /\ RGt(trades[1].profit_loss, RZero)
    /\ trades[2].profit_loss = RZero
    /\ consecutive_losses = 1

\* the ids of the open positions and of the closed trades, one per position
PositionIds ==
    [i \in 1..Len(trades) |-> trades[i].id]
        \o [i \in 1..Cardinality(DOMAIN positions) |-> Sorted(DOMAIN positions)[i]]

\* every position is stored under its own id and no two positions, open or
\* closed, have the same id
IdsDistinct ==
    /\ \A k \in DOMAIN positions : positions[k].id = k
    /\ \A i, j \in DOMAIN PositionIds : i # j => PositionIds[i] # PositionIds[j]

\* the signal loop replaces no position of the table: what was open before
\* the loop is there unchanged after it, next to the newly opened positions
InsertionKeepsOpen ==
    pc = "signals" =>
        /\ \A k \in DOMAIN positions : k \in DOMAIN positions' /\ positions'[k] = positions[k]
        /\ Cardinality(DOMAIN positions') = Cardinality(DOMAIN positions) + (next_id' - next_id)

\* C28: every opened position gets a fresh id: no two positions of a run,
\* open or closed, share an id, and inserting a new position never overwrites
\* an open one.
C28_FreshIds ==
    []IdsDistinct /\ [][InsertionKeepsOpen]_vars

\* a position was inserted at this tick while another one, opened at an
\* earlier tick, was open
C28_Witness ==
    /\ pc = "equity"
    /\ Cardinality(DOMAIN positions) = 2
    /\ \E k \in DOMAIN positions : positions[k].entry_time = tick_time
    /\ \E k \in DOMAIN positions : positions[k].entry_time < tick_time

\* C23: the loop never raises because of one tick's bad data: whatever
\* happens in signal generation at a tick, the tick goes on to its equity
\* recording with the recorded trades and equity points kept, and the caller
\* gets a result.
C23_LoopNeverRaises ==
    [][pc = "signals" =>
          /\ pc' = "equity"
          /\ trades' = trades
          /\ equity_curve' = equity_curve
          /\ call' = call]_vars

\* C29: once a closed trade is in the ledger none of its fields changes:
\* every step, the caller's serialization included, leaves each ledger entry
\* as it was.
C29_LedgerEntriesImmutable ==
    [][\A i \in DOMAIN trades : i \in DOMAIN trades' /\ trades'[i] = trades[i]]_vars

\* the series that have bars
RemainingSeries ==
    {s \in Pairs \X Timeframes : market_data[s[1]][s[2]] # <<>>}

\* run() has returned a result: a ledger, an equity curve with one point per
\* tick, metrics, and a timeline made of the bars of the remaining series
Completed ==
    /\ metrics # None
    /\ positions = <<>>
    /\ Len(equity_curve) = Len(time_index) + 1
    /\ {time_index[i] : i \in DOMAIN time_index}
         = {t \in UNION {DOMAIN market_data[s[1]][s[2]] : s \in RemainingSeries} :
              start_date <= t /\ t <= end_date}

\* the step run() stands at can be taken: the loop stands at a tick of the
\* timeline and the strategy's answer can be executed
CanProceed ==
    /\ pc \in {"start", "update_positions", "signals", "equity", "close_remaining",
               "finalize", "done"}
    /\ pc \in {"update_positions", "signals", "equity"} => tick \in DOMAIN time_index
    /\ pc = "signals" =>
          \E signals \in generate_signals(tick_time) :
              execute_signals(signals, tick_time,
                  [positions |-> positions, next_id |-> next_id,
                   peak |-> peak_equity]).next_id - 1 <= MaxOpens * run_no

\* an upper bound of the number of steps run() has left: three per tick of
\* the timeline, then the forced close and the metrics
StepsLeft ==
    CASE pc = "start" -> 3 * Cardinality(Times) + 3
      [] pc = "update_positions" -> 3 * (Len(time_index) - tick) + 5
      [] pc = "signals" -> 3 * (Len(time_index) - tick) + 4
      [] pc = "equity" -> 3 * (Len(time_index) - tick) + 3
      [] pc = "close_remaining" -> 2
      [] pc = "finalize" -> 1
      [] OTHER -> 0

\* C26: missing data does not fail the run: whichever series are empty (all
\* of them included), run() completes and returns a result whose timeline is
\* built from the remaining series.  Every step before the return can be
\* taken and brings the return nearer, and what is returned is a completed
\* result.
C26_RunCompletesOnMissingData ==
    /\ []CanProceed
    /\ [][StepsLeft' < StepsLeft]_vars
    /\ [](pc = "done" => Completed)

\* a completed run without primary bars, on the timeline of the other series
C26_Witness ==
    /\ pc = "done"
    /\ Completed
    /\ time_index # <<>>
    /\ trades # <<>>
    /\ \E s \in Pairs \X Timeframes : s \notin RemainingSeries
    /\ \A p \in Pairs : market_data[p][primary_timeframe] = <<>>

\* where a tick stands: before its exit evaluation every earlier tick has its
\* equity point and every open position was opened at an earlier tick; the
\* positions evaluated at a tick were opened before it
TickState ==
    /\ pc \in {"update_positions", "signals", "equity"} =>
          /\ Len(equity_curve) = tick
          /\ tick > 1 => equity_curve[tick][1] = time_index[tick - 1]
    /\ pc = "update_positions" =>
          \A k \in DOMAIN positions : positions[k].entry_time < tick_time
    /\ pc \in {"signals", "equity"} =>
          \A e \in LogEntries : e.time = tick_time /\ e.before.entry_time < tick_time

\* the steps of a tick, in order: exit evaluation (positions leave, none
\* enters), signal generation with admission and opening (positions enter
\* with the tick's time, none leaves, no trade is closed), equity recording
\* (one point for the tick), and only then the next tick
TickOrder ==
    /\ pc = "update_positions" =>
          /\ pc' = "signals"
          /\ DOMAIN positions' \subseteq DOMAIN positions
          /\ equity_curve' = equity_curve /\ tick' = tick
    /\ pc = "signals" =>
          /\ pc' = "equity"
          /\ trades' = trades
          /\ \A k \in DOMAIN positions : k \in DOMAIN positions' /\ positions'[k] = positions[k]
          /\ \A k \in DOMAIN positions' \ DOMAIN positions : positions'[k].entry_time = tick_time
          /\ equity_curve' = equity_curve /\ tick' = tick
    /\ pc = "equity" =>
          /\ pc' \in {"update_positions", "close_remaining"}
          /\ positions' = positions /\ trades' = trades
          /\ equity_curve' = Append(equity_curve, <<tick_time, equity'>>)
          /\ tick' = tick + 1
          /\ pc' = "update_positions" => tick' \in DOMAIN time_index

\* C30: within each tick the steps run in the order exit evaluation, signal
\* generation, admission and opening, equity recording; a position opened at
\* tick t is first evaluated at the next tick, and no tick starts before the
\* previous tick's equity point is recorded.
C30_TickStepOrder ==
    []TickState /\ [][TickOrder]_vars

\* a position opened at one tick has just had its first exit evaluation, at
\* the next tick
C30_Witness ==
    /\ pc = "signals"
    /\ tick > 1
    /\ \E e \in LogEntries :
         /\ e.before.entry_time = time_index[tick - 1]
         /\ e.time = tick_time
         /\ e.reason # "NONE"

\* C31: the trailing-stop level, the running highest and lowest price and the
\* trailing-active flag of a position are updated at a tick only if no exit
\* condition, TIME_LIMIT included, matched at that tick: on a tick where the
\* position is closed those fields are left as they were.
C31_NoTrailingUpdateOnClose ==
    \A e \in LogEntries :
        e.reason # "NONE" =>
            /\ e.after.trailing_stop = e.before.trailing_stop
            /\ e.after.highest_price = e.before.highest_price
            /\ e.after.lowest_price = e.before.lowest_price
            /\ e.after.trailing_activated = e.before.trailing_activated

\* C32: the TAKE_PROFIT2 branch is unreachable: no position is ever closed
\* with exit reason TAKE_PROFIT2, because the tier-1 marker it requires is
\* never set on a position that is still open.
C32_TakeProfit2Unreachable ==
    /\ \A k \in DOMAIN positions : ~positions[k].exit_take_profit1
    /\ \A e \in LogEntries : ~e.before.exit_take_profit1 /\ e.reason # "TAKE_PROFIT2"
    /\ \A t \in Ledger : t.exit_reason # "TAKE_PROFIT2"

\* the price has reached the second take-profit level of an open position:
\* the position is closed at the first tier
C32_Witness ==
    \E e \in LogEntries :
        /\ IF e.before.direction = "LONG"
           THEN RGe(e.price, e.before.take_profit2)
           ELSE RLe(e.price, e.before.take_profit2)
        /\ e.reason = "TAKE_PROFIT1"
        /\ \E t \in Ledger : t.id = e.id /\ t.exit_reason = "TAKE_PROFIT1"

\* the threads that run _run_loop
Alive ==
    {t \in Threads : threads[t] \in {"check", "cycle", "sleep"}}

\* C33: an exception raised inside one trading cycle never terminates the
\* polling loop, which goes on to the next cycle; the loop exits only after
\* it has observed is_running false; and once stop() has set is_running false
\* the loop eventually exits.
C33_LoopSurvivesAndStops ==
    /\ [][\A t \in Threads :
            /\ threads[t] = "cycle" => threads'[t] \in {"cycle", "sleep", "check"}
            /\ threads[t] # "exited" /\ threads'[t] = "exited"
                 => threads[t] = "check" /\ ~is_running]_vars
    /\ \A t \in Threads : (t \in Alive /\ ~is_running) ~> (threads[t] = "exited")

\* C34: for every interleaving of start() and stop() calls with the polling
\* threads, at most one _run_loop thread is executing trading cycles at any
\* time.
C34_OneLoopThread ==
    Cardinality({t \in Threads : threads[t] = "cycle"}) <= 1

\* C35: start() called while the bot is running is a no-op (no thread is
\* created and is_running stays true), and stop() called while the bot is
\* not running is a no-op (is_running stays false and the positions are not
\* closed).
C35_RedundantCallsAreNoOps ==
    [][/\ Start /\ is_running =>
            /\ is_running'
            /\ threads' = threads
            /\ bot_thread' = bot_thread
            /\ call'.created = 0
       /\ Stop /\ ~is_running =>
            /\ ~is_running'
            /\ threads' = threads
            /\ caller' = "idle"
            /\ ~call'.closed_positions]_vars

\* start() has returned early: the bot is running with the thread it had
C35_Witness ==
    /\ call.fn = "start"
    /\ call.created = 0
    /\ is_running
    /\ bot_thread \in Alive

\* the streak is at its limit and no position is open
AtLimitFlat ==
    /\ consecutive_losses >= max_consecutive_losses
    /\ positions = <<>>

\* C36: once consecutive_losses has reached max_consecutive_losses while no
\* position is open, every later signal of the run is rejected and no
\* position is ever opened again: the counter can only be reset by a winning
\* close.
C36_StreakLimitIsFinal ==
    /\ [](AtLimitFlat =>
            \A signal \in Signals \cup StreakSignals :
                ~simulator_can_open_position(signal, positions, equity,
                                             consecutive_losses, peak_equity))
    /\ [][AtLimitFlat =>
            /\ positions' = <<>>
            /\ next_id' = next_id
            /\ consecutive_losses' = consecutive_losses]_vars

\* the strategy's signal of this tick has been turned down at the limit
C36_Witness ==
    /\ pc = "equity"
    /\ strategy[tick_time] # <<>>
    /\ AtLimitFlat
    /\ \E i \in DOMAIN trades : trades[i].exit_time = tick_time

\* C37: after any sequence of admissions by the Risk Gate, several signals
\* admitted within one tick included, the total notional value of all open
\* positions never exceeds current_equity * max_total_exposure; the equity is
\* the one the admissions of the tick were decided on.
C37_ExposureWithinLimit ==
    pc = "equity" =>
        RLe(SumOver(DOMAIN positions, [k \in DOMAIN positions |-> positions[k].position_value]),
            RMul(equity, max_total_exposure))

\* C38: in the mock exchange, starting from non-negative balances and after
\* any sequence of create_order calls with positive amounts and prices, every
\* currency balance stays >= 0: a BUY whose cost exceeds the quote balance
\* and a SELL whose amount exceeds the base balance are rejected.
C38_BalancesNeverNegative ==
    /\ \A currency \in DOMAIN balance : RGe(balance[currency], RZero)
    /\ call.fn = "create_order" =>
         /\ call.side = "BUY" /\ RGt(call.cost, call.balance[quote_currency]) => call.raised
         /\ call.side = "SELL" /\ RGt(call.amount, call.balance[base_currency]) => call.raised

\* a BUY that costs more than an exchange that has traded before holds
C38_Witness ==
    /\ call.fn = "create_order"
    /\ call.side = "BUY"
    /\ RGt(call.cost, call.balance[quote_currency])
    /\ call.raised
    /\ order_id_counter > 0

\* C39: a create_order call rejected for insufficient balance raises an error
\* and leaves every balance, the stored orders and the order id counter
\* unchanged; a successful call stores exactly one new order under a fresh id
\* that is one greater than the previous one.
C39_RejectedOrStoredOnce ==
    [][CreateOrder =>
         IF call'.raised
         THEN /\ balance' = balance
              /\ orders' = orders
              /\ order_id_counter' = order_id_counter
         ELSE /\ order_id_counter' = order_id_counter + 1
              /\ str(order_id_counter') \notin DOMAIN orders
              /\ DOMAIN orders' = DOMAIN orders \cup {str(order_id_counter')}
              /\ orders'[str(order_id_counter')].id = str(order_id_counter')
              /\ \A id \in DOMAIN orders : orders'[id] = orders[id]]_vars

\* a second order has been stored next to the first
C39_Witness ==
    /\ call.fn = "create_order"
    /\ order_id_counter = 2
    /\ Cardinality(DOMAIN orders) = 2
    /\ ~call.raised

====
